---------------------------- MODULE Spec2Model ----------------------------
(***************************************************************************)
(* A model of nayotta/llog: the leveled logger of src/log.go and the        *)
(* process-wide default logger of src/std.go.                               *)
(*                                                                          *)
(* Strings and byte slices are sequences of one-character strings, so that  *)
(* appending, indexing the last byte and lower-casing are what the Go code  *)
(* does to them.                                                            *)
(***************************************************************************)
EXTENDS Integers, Sequences, FiniteSets, Bags, TLC

(***************************************************************************)
(* Bounds of the exploration.                                               *)
(***************************************************************************)
\* goroutines that emit concurrently
NThreads == 2
\* emission calls made in one concurrent run
MaxCalls == 2
\* loggers derived by With* in one run
MaxClones == 3
\* package-level setter calls in one run
MaxSets == 2

(***************************************************************************)
(* Levels, src/log.go:40-56.                                                *)
(***************************************************************************)
LevelError == -2
LevelWarning == -1
LevelInfo == 0
LevelDebug == 1

Levels == {LevelError, LevelWarning, LevelInfo, LevelDebug}

\* the map levelString; a missing key reads as the zero value ""
levelString(level) ==
  CASE level = LevelError -> <<"[", "E", "]">>
    [] level = LevelWarning -> <<"[", "W", "]">>
    [] level = LevelInfo -> <<"[", "I", "]">>
    [] level = LevelDebug -> <<"[", "D", "]">>
    [] OTHER -> <<>>

\* Level.String
String(level) == levelString(level)

(***************************************************************************)
(* Text helpers: strconv.Itoa, strings.ToLower, time.Format, fmt.Sprint and *)
(* fmt.Sprintf as the code uses them.                                       *)
(***************************************************************************)
Digit(d) ==
  CASE d = 0 -> "0" [] d = 1 -> "1" [] d = 2 -> "2" [] d = 3 -> "3"
    [] d = 4 -> "4" [] d = 5 -> "5" [] d = 6 -> "6" [] d = 7 -> "7"
    [] d = 8 -> "8" [] d = 9 -> "9"

RECURSIVE NatDigits(_)
NatDigits(n) ==
  IF n < 10 THEN <<Digit(n)>> ELSE NatDigits(n \div 10) \o <<Digit(n % 10)>>

\* strconv.Itoa
Itoa(n) == IF n < 0 THEN <<"-">> \o NatDigits(-n) ELSE NatDigits(n)

\* a number zero-padded to width w, as the layout's 2006, 01, 02, 15, 04, 05, 000
RECURSIVE Pad(_, _)
Pad(n, w) == IF w = 0 THEN <<>> ELSE Pad(n \div 10, w - 1) \o <<Digit(n % 10)>>

\* time.Time.Format("2006/01/02 15:04:05.000 ")
FormatTime(t) ==
  Pad(t.Y, 4) \o <<"/">> \o Pad(t.M, 2) \o <<"/">> \o Pad(t.D, 2) \o <<" ">>
    \o Pad(t.h, 2) \o <<":">> \o Pad(t.m, 2) \o <<":">> \o Pad(t.s, 2)
    \o <<".">> \o Pad(t.ms, 3) \o <<" ">>

Upper == <<"A","B","C","D","E","F","G","H","I","J","K","L","M",
           "N","O","P","Q","R","S","T","U","V","W","X","Y","Z">>
Lower == <<"a","b","c","d","e","f","g","h","i","j","k","l","m",
           "n","o","p","q","r","s","t","u","v","w","x","y","z">>

LowerChar(c) ==
  IF \E i \in 1..26 : Upper[i] = c
    THEN Lower[CHOOSE i \in 1..26 : Upper[i] = c]
    ELSE c

\* strings.ToLower
ToLower(s) == [i \in 1..Len(s) |-> LowerChar(s[i])]

\* An operand of a variadic call: a string, or an int.
StrOp(s) == [k |-> "string", v |-> s]
IntOp(n) == [k |-> "int", v |-> n]

\* the %v form of an operand
FormatOperand(a) == IF a.k = "string" THEN a.v ELSE Itoa(a.v)

\* as Sprint, with a space between every two operands (fmt.Sprintln's rule)
RECURSIVE SprintSpacedFrom(_, _)
SprintSpacedFrom(v, i) ==
  IF i > Len(v) THEN <<>>
  ELSE (IF i > 1 THEN <<" ">> ELSE <<>>)
         \o FormatOperand(v[i]) \o SprintSpacedFrom(v, i + 1)

SprintSpaced(v) == SprintSpacedFrom(v, 1)

\* fmt.Sprint: a space between two operands when neither is a string
RECURSIVE SprintFrom(_, _)
SprintFrom(v, i) ==
  IF i > Len(v) THEN <<>>
  ELSE (IF i > 1 /\ v[i-1].k # "string" /\ v[i].k # "string" THEN <<" ">> ELSE <<>>)
         \o FormatOperand(v[i]) \o SprintFrom(v, i + 1)

Sprint(v) == SprintFrom(v, 1)

\* fmt.Sprintf for the verbs %d %s %v and %%, each verb taking the next operand
RECURSIVE SprintfFrom(_, _, _, _)
SprintfFrom(format, i, v, j) ==
  IF i > Len(format) THEN <<>>
  ELSE IF format[i] = "%" /\ i < Len(format)
    THEN IF format[i+1] = "%"
           THEN <<"%">> \o SprintfFrom(format, i + 2, v, j)
           ELSE FormatOperand(v[j]) \o SprintfFrom(format, i + 2, v, j + 1)
    ELSE <<format[i]>> \o SprintfFrom(format, i + 1, v, j)

Sprintf(format, v) == SprintfFrom(format, 1, v, 1)


(***************************************************************************)
(* The emission entry points: the Logger methods of src/log.go:173-203 and  *)
(* the package-level functions of src/std.go:61-101.                        *)
(***************************************************************************)
LoggerMethods ==
  {"Logger.Error", "Logger.Errorf", "Logger.Warn", "Logger.Warnf",
   "Logger.Info", "Logger.Infof", "Logger.Debug", "Logger.Debugf"}

PackageFuncs ==
  {"Error", "Errorf", "Warn", "Warnf", "Info", "Infof", "Debug", "Debugf",
   "Fatal", "Fatalf"}

EntryPoints == LoggerMethods \cup PackageFuncs

\* the level each entry point passes to output
EntryLevel(fn) ==
  CASE fn \in {"Logger.Error", "Logger.Errorf", "Error", "Errorf", "Fatal", "Fatalf"}
         -> LevelError
    [] fn \in {"Logger.Warn", "Logger.Warnf", "Warn", "Warnf"} -> LevelWarning
    [] fn \in {"Logger.Info", "Logger.Infof", "Info", "Infof"} -> LevelInfo
    [] fn \in {"Logger.Debug", "Logger.Debugf", "Debug", "Debugf"} -> LevelDebug

\* the entry points that build the body with fmt.Sprintf
IsFormatted(fn) ==
  fn \in {"Logger.Errorf", "Logger.Warnf", "Logger.Infof", "Logger.Debugf",
          "Errorf", "Warnf", "Infof", "Debugf", "Fatalf"}

\* Fatal and Fatalf call os.Exit(1) after output returns
IsFatal(fn) == fn \in {"Fatal", "Fatalf"}

\* the message body an entry point hands to output
Body(fn, format, v) == IF IsFormatted(fn) THEN Sprintf(format, v) ELSE Sprint(v)

LogGo == <<"l", "o", "g", ".", "g", "o">>
StdGo == <<"s", "t", "d", ".", "g", "o">>

\* the source line of each entry point's call of output
EntryLine(fn) ==
  CASE fn = "Logger.Error" -> 174 [] fn = "Logger.Errorf" -> 178
    [] fn = "Logger.Warn" -> 182 [] fn = "Logger.Warnf" -> 186
    [] fn = "Logger.Info" -> 190 [] fn = "Logger.Infof" -> 194
    [] fn = "Logger.Debug" -> 198 [] fn = "Logger.Debugf" -> 202
    [] fn = "Error" -> 62 [] fn = "Errorf" -> 66
    [] fn = "Warn" -> 70 [] fn = "Warnf" -> 74
    [] fn = "Info" -> 78 [] fn = "Infof" -> 82
    [] fn = "Debug" -> 86 [] fn = "Debugf" -> 90
    [] fn = "Fatal" -> 94 [] fn = "Fatalf" -> 99

\* the frame of an entry point while it is inside output
EntryFrame(fn) ==
  [fn |-> fn, file |-> IF fn \in LoggerMethods THEN LogGo ELSE StdGo,
   line |-> EntryLine(fn)]

\* the frames of output (at its call of formatHeader) and of formatHeader (at
\* its call of runtime.Caller)
OutputFrame == [fn |-> "Logger.output", file |-> LogGo, line |-> 126]
FormatHeaderFrame == [fn |-> "Logger.formatHeader", file |-> LogGo, line |-> 103]

\* runtime.Caller(skip) on a stack whose last element is the calling frame:
\* (file, line, ok) of the frame skip levels above the caller
Caller(stack, skip) ==
  IF skip < Len(stack)
    THEN [file |-> stack[Len(stack) - skip].file,
          line |-> stack[Len(stack) - skip].line, ok |-> TRUE]
    ELSE [file |-> <<>>, line |-> 0, ok |-> FALSE]

\* as CallerSkip, one frame short: the frames of output and formatHeader
\* alone, which leads to the entry point
CallerSkipTwo == Len(<<OutputFrame, FormatHeaderFrame>>)

\* the frame-skip count formatHeader passes to runtime.Caller
CallerSkip == 3

(***************************************************************************)
(* Logger.formatHeader and the body of Logger.output, as functions of the   *)
(* fields they read.                                                        *)
(***************************************************************************)
\* file:line of the call site, or ???:0 when runtime.Caller fails
FileAndLine(stack) ==
  LET c == Caller(stack \o <<OutputFrame, FormatHeaderFrame>>, CallerSkip)
      file == IF c.ok THEN c.file ELSE <<"?", "?", "?">>
      line == IF c.ok THEN c.line ELSE 0
  IN  file \o <<":">> \o Itoa(line) \o <<" ">>

\* Logger.formatHeader: what it appends to the buffer
formatHeader(now, tag, fileAndLine, level, stack) ==
  FormatTime(now) \o String(level)
    \o (IF tag # <<>> THEN <<"[">> \o tag \o <<"]", " ">> ELSE <<>>)
    \o (IF fileAndLine THEN FileAndLine(stack) ELSE <<>>)

\* as NeedsNewline, for a terminator appended to every body
NeedsNewlineAlways(s) == Len(s) >= 0

\* the test of src/log.go:128
NeedsNewline(s) == Len(s) = 0 \/ s[Len(s)] # "\n"

\* as appendBody, without the test of src/log.go:128
appendBodyBare(buf, s) == buf \o s

\* src/log.go:127-130: the body, and a line terminator when it lacks one
appendBody(buf, s) == buf \o s \o (IF NeedsNewline(s) THEN <<"\n">> ELSE <<>>)

\* as Visible, with the comparison of src/log.go:118 off by one
VisibleStrict(level, min) == ~(level >= min)

\* the test of src/log.go:118 negated: a message of this level is emitted
Visible(level, min) == ~(level > min)

\* as setLevelString, without the call of strings.ToLower
setLevelStringExact(old, s) ==
  CASE s \in {<<"e","r","r","o","r">>, <<"e">>} -> LevelError
    [] s \in {<<"w","a","r","n","i","n","g">>, <<"w">>} -> LevelWarning
    [] s \in {<<"i","n","f","o">>, <<"i">>} -> LevelInfo
    [] s \in {<<"d","e","b","u","g">>, <<"d">>} -> LevelDebug
    [] OTHER -> old

\* Logger.setLevelString: the level after the call
setLevelString(old, s) ==
  LET t == ToLower(s) IN
  CASE t \in {<<"e","r","r","o","r">>, <<"e">>} -> LevelError
    [] t \in {<<"w","a","r","n","i","n","g">>, <<"w">>} -> LevelWarning
    [] t \in {<<"i","n","f","o">>, <<"i">>} -> LevelInfo
    [] t \in {<<"d","e","b","u","g">>, <<"d">>} -> LevelDebug
    [] OTHER -> old

(***************************************************************************)
(* State.                                                                   *)
(*   loggers  the Logger values of the heap; loggers[1] is std              *)
(*   made     how each Logger was made: the method, its receiver, the       *)
(*            receiver's fields at the call and the argument (history)      *)
(*   writers  the mutexWriter values of the heap: mu is 0 when unlocked and *)
(*            the holding goroutine otherwise, Writer names the destination *)
(*   dest     each destination's byte stream, the Write calls it got,       *)
(*            whether one of them ended with an error or a short count, and *)
(*            the (count, error) its last ended Write returned              *)
(*   sent     the Write calls the destinations got, in the order they       *)
(*            began: the mutexWriter, the destination, the goroutine and    *)
(*            the buffer (history)                                          *)
(*   bufs     the buffers allocated by bufPool.New, by allocation order     *)
(*   pool     the buffers bufPool holds, a bag: each with the times it was  *)
(*            put and not taken                                             *)
(*   th       each goroutine's position inside an emission and its locals   *)
(*   proc     "running", "exit1" after os.Exit(1), "crashed" after an       *)
(*            unrecovered panic                                             *)
(*   ncalls, nsets  emission and setter calls made so far                   *)
(*   profile  the inputs this run draws from                                *)
(***************************************************************************)
VARIABLES loggers, made, writers, dest, sent, bufs, pool, th, proc, ncalls, nsets,
          profile

vars == <<loggers, made, writers, dest, sent, bufs, pool, th, proc, ncalls, nsets,
          profile>>

Std == 1

Dests == {"stderr", "file"}

sA == <<"a">>
sB == <<"b">>
sJob == <<"j", "o", "b">>
sDone == <<"d", "o", "n", "e">>
sWorker == <<"w", "o", "r", "k", "e", "r">>
sMainGo == <<"m", ".", "g", "o">>

Entry(fn, format, v) == [fn |-> fn, format |-> format, v |-> v]

\* one call of every entry point, and the bodies that differ in how they end
SeqEntries ==
  {Entry("Logger.Info", <<>>, <<StrOp(sJob), IntOp(42), StrOp(sDone)>>),
   Entry("Logger.Info", <<>>, <<>>),
   Entry("Logger.Info", <<>>, <<StrOp(<<"a", "\n">>)>>),
   Entry("Logger.Info", <<>>, <<StrOp(<<"a", "\n", "b">>)>>),
   Entry("Logger.Info", <<>>, <<StrOp(<<"a", "\n", "\n">>)>>),
   Entry("Logger.Error", <<>>, <<StrOp(sA)>>),
   Entry("Logger.Warn", <<>>, <<IntOp(1), IntOp(2)>>),
   Entry("Logger.Debug", <<>>, <<StrOp(sA), StrOp(sB)>>),
   Entry("Logger.Errorf", <<"%", "s">>, <<StrOp(sA)>>),
   Entry("Logger.Warnf", <<"%", "v", "\n">>, <<IntOp(-3)>>),
   Entry("Logger.Infof", <<"1", "0", "%", "%">>, <<>>),
   Entry("Logger.Debugf", <<"n", "=", "%", "d">>, <<IntOp(7)>>),
   Entry("Error", <<>>, <<StrOp(sA)>>),
   Entry("Warn", <<>>, <<StrOp(sA)>>),
   Entry("Info", <<>>, <<StrOp(sA)>>),
   Entry("Debug", <<>>, <<StrOp(sA)>>),
   Entry("Errorf", <<"%", "s">>, <<StrOp(sA)>>),
   Entry("Warnf", <<"%", "s">>, <<StrOp(sA)>>),
   Entry("Infof", <<"%", "s">>, <<StrOp(sA)>>),
   Entry("Debugf", <<"%", "s">>, <<StrOp(sA)>>),
   Entry("Fatal", <<>>, <<StrOp(sA)>>),
   Entry("Fatalf", <<"%", "s">>, <<StrOp(sA)>>)}

ConcEntries ==
  {Entry("Logger.Info", <<>>, <<StrOp(sA)>>),
   Entry("Error", <<>>, <<StrOp(sB), StrOp(<<"\n">>)>>)}

FailEntries == {Entry("Error", <<>>, <<StrOp(sA)>>)}

RaceEntries == {Entry("Info", <<>>, <<StrOp(sA)>>)}

\* inputs of SetLevelString
LevelStrings ==
  {<<"e","r","r","o","r">>, <<"E">>, <<"W","a","r","n","i","n","g">>, <<"w">>,
   <<"I","N","F","O">>, <<"i">>, <<"d","E","b","U","g">>, <<"D">>,
   <<>>, <<"w","a","r","n">>, <<"e","r","r","o","r","s">>, <<" ","e">>,
   <<"t","r","a","c","e">>, <<"0">>}

Clock1 == [Y |-> 2024, M |-> 2, D |-> 29, h |-> 23, m |-> 59, s |-> 59, ms |-> 7]
Clock2 == [Y |-> 2025, M |-> 11, D |-> 3, h |-> 4, m |-> 5, s |-> 6, ms |-> 120]

Site1 == [fn |-> "main.main", file |-> sMainGo, line |-> 7]

\* what the destination's Write does with a call: all bytes and nil, an error
\* before any byte, an error after a part, a part and nil
WriteResults == {"ok", "err0", "err1", "short"}

\* The inputs a run draws from. Each profile is one kind of run: what its
\* goroutines call, with which arguments and how often. The runs over many
\* arguments are short; the runs of several goroutines draw from few.

\* one goroutine derives loggers with the With* methods
CloneProfile ==
  [name |-> "clone", threads |-> {1}, entries |-> {},
   tags |-> {<<>>, sWorker}, levels |-> {LevelError, LevelDebug},
   outs |-> {"file"}, flags |-> BOOLEAN, lstrings |-> {},
   clocks |-> {}, results |-> {},
   maxcalls |-> 0, maxclones |-> MaxClones, maxsets |-> 0]

\* one goroutine configures the default logger with the package-level setters,
\* its level by SetLevelString alone
SetProfile ==
  [name |-> "set", threads |-> {1}, entries |-> {},
   tags |-> {<<>>, sWorker}, levels |-> {},
   outs |-> Dests, flags |-> BOOLEAN, lstrings |-> LevelStrings,
   clocks |-> {}, results |-> {},
   maxcalls |-> 0, maxclones |-> 0, maxsets |-> MaxSets]

\* one goroutine configures one logger and makes one call, of any entry point
EmitProfile ==
  [name |-> "emit", threads |-> {1}, entries |-> SeqEntries,
   tags |-> {sWorker}, levels |-> Levels \cup {-3, 2},
   outs |-> {"file"}, flags |-> {TRUE}, lstrings |-> {<<"D">>},
   clocks |-> {Clock2}, results |-> WriteResults,
   maxcalls |-> 1, maxclones |-> 1, maxsets |-> 1]

\* several goroutines emit through the default logger and a logger derived
\* from it while the default logger is reconfigured
ConcProfile ==
  [name |-> "conc", threads |-> 1..NThreads, entries |-> ConcEntries,
   tags |-> {sWorker}, levels |-> {},
   outs |-> {"stderr"}, flags |-> {}, lstrings |-> {},
   clocks |-> {Clock1}, results |-> {"ok"},
   maxcalls |-> MaxCalls, maxclones |-> 1, maxsets |-> 0]

\* several goroutines emit one message through the default logger to a
\* destination whose Write may fail
FailProfile ==
  [name |-> "fail", threads |-> 1..NThreads, entries |-> FailEntries,
   tags |-> {}, levels |-> {},
   outs |-> {}, flags |-> {}, lstrings |-> {},
   clocks |-> {Clock1}, results |-> {"ok", "err0", "err1"},
   maxcalls |-> MaxCalls, maxclones |-> 0, maxsets |-> 0]

\* the default logger is reconfigured while a goroutine emits through it
RaceProfile ==
  [name |-> "race", threads |-> {1}, entries |-> RaceEntries,
   tags |-> {sWorker}, levels |-> {LevelError},
   outs |-> {"file"}, flags |-> {TRUE}, lstrings |-> {<<"e">>},
   clocks |-> {Clock1}, results |-> {"ok"},
   maxcalls |-> 1, maxclones |-> 0, maxsets |-> MaxSets]

Profiles ==
  {CloneProfile, SetProfile, EmitProfile, ConcProfile, FailProfile, RaceProfile}

Threads == 1..NThreads

\* pc: the goroutine's place; fn, args, l: the entry point, its arguments and
\* its logger; level, s: the arguments of output; min: the l.level output read;
\* cfg: the fields l had when output read l.level (history);
\* stack: the frames above output; buf: the buffer; tag, fl: the l.tag and
\* l.fileAndLine formatHeader read; w: the l.out output read;
\* n, err: the result of Write; writes: the Write calls this emission made;
\* ret: how the last emission ended; pv: the value it panicked with
IdleThread ==
  [pc |-> "idle", fn |-> "", args |-> <<>>, l |-> 0, level |-> 0, min |-> 0,
   cfg |-> [out |-> 0, level |-> 0, tag |-> <<>>, fileAndLine |-> FALSE],
   s |-> <<>>, stack |-> <<>>, buf |-> 0, tag |-> <<>>, fl |-> FALSE,
   w |-> 0, n |-> 0, err |-> "",
   writes |-> 0, ret |-> "none", pv |-> ""]

\* the fields of std after src/std.go:11-17
DefaultLogger == [out |-> 1, level |-> LevelInfo, tag |-> <<>>, fileAndLine |-> FALSE]

\* src/std.go:11-17 and src/log.go:15-22
InitOf(p) ==
  /\ profile = p
  /\ loggers = <<DefaultLogger>>
  /\ made = <<[op |-> "init", from |-> 0, recv |-> <<>>, arg |-> <<>>]>>
  /\ writers = <<[mu |-> 0, Writer |-> "stderr"]>>
  /\ dest = [d \in Dests |-> [data |-> <<>>, calls |-> 0, broken |-> FALSE,
                              last |-> [n |-> 0, err |-> ""]]]
  /\ sent = <<>>
  /\ bufs = <<>>
  /\ pool = EmptyBag
  /\ th = [t \in Threads |-> IdleThread]
  /\ proc = "running"
  /\ ncalls = 0
  /\ nsets = 0

Init == \E p \in Profiles : InitOf(p)

(***************************************************************************)
(* Configuration: clone and the With* methods (src/log.go:138-171, reached  *)
(* through src/std.go:45-59 for the default logger), and the package-level  *)
(* setters (src/std.go:23-43). A With* call reads its receiver's fields in  *)
(* one step; a setter writes its field in one step, at any moment of an     *)
(* emission.                                                                *)
(***************************************************************************)
\* as clone, with the level left at its zero value
cloneNoLevel(lg) ==
  [out |-> lg.out, tag |-> lg.tag, level |-> 0, fileAndLine |-> lg.fileAndLine]

\* Logger.clone: the fields of the new Logger
clone(lg) ==
  [out |-> lg.out, tag |-> lg.tag, level |-> lg.level, fileAndLine |-> lg.fileAndLine]

\* a fresh mutexWriter around a destination, its lock free
NewWriter(out) == [mu |-> 0, Writer |-> out]

CanClone ==
  /\ proc = "running"
  /\ Len(loggers) - 1 < profile.maxclones

\* the record of a With* call on logger l
Made(op, l, arg) == [op |-> op, from |-> l, recv |-> loggers[l], arg |-> arg]

\* as WithTag, with the clone given a mutexWriter of its own around the
\* receiver's destination
WithTagOwnWriter(l, tag) ==
  /\ CanClone
  /\ made' = Append(made, Made("WithTag", l, tag))
  /\ writers' = Append(writers, NewWriter(writers[loggers[l].out].Writer))
  /\ loggers' = Append(loggers, [clone(loggers[l]) EXCEPT !.tag = tag,
                                                         !.out = Len(writers) + 1])
  /\ UNCHANGED <<dest, sent, bufs, pool, th, proc, ncalls, nsets, profile>>

WithTag(l, tag) ==
  /\ CanClone
  /\ made' = Append(made, Made("WithTag", l, tag))
  /\ loggers' = Append(loggers, [clone(loggers[l]) EXCEPT !.tag = tag])
  /\ UNCHANGED <<writers, dest, sent, bufs, pool, th, proc, ncalls, nsets, profile>>

WithLevel(l, level) ==
  /\ CanClone
  /\ made' = Append(made, Made("WithLevel", l, level))
  /\ loggers' = Append(loggers, [clone(loggers[l]) EXCEPT !.level = level])
  /\ UNCHANGED <<writers, dest, sent, bufs, pool, th, proc, ncalls, nsets, profile>>

WithOutput(l, out) ==
  /\ CanClone
  /\ made' = Append(made, Made("WithOutput", l, out))
  /\ writers' = Append(writers, NewWriter(out))
  /\ loggers' = Append(loggers, [clone(loggers[l]) EXCEPT !.out = Len(writers) + 1])
  /\ UNCHANGED <<dest, sent, bufs, pool, th, proc, ncalls, nsets, profile>>

WithFileAndLine(l, included) ==
  /\ CanClone
  /\ made' = Append(made, Made("WithFileAndLine", l, included))
  /\ loggers' = Append(loggers, [clone(loggers[l]) EXCEPT !.fileAndLine = included])
  /\ UNCHANGED <<writers, dest, sent, bufs, pool, th, proc, ncalls, nsets, profile>>

\* as CanSet, for setters that wait until no emission is in flight
CanSetQuiet ==
  /\ proc = "running"
  /\ nsets < profile.maxsets
  /\ \A t \in DOMAIN th : th[t].pc \in {"idle", "panic"}

\* a setter is called; it waits for nothing
CanSet ==
  /\ proc = "running"
  /\ nsets < profile.maxsets

SetTag(tag) ==
  /\ CanSet
  /\ loggers' = [loggers EXCEPT ![Std].tag = tag]
  /\ nsets' = nsets + 1
  /\ UNCHANGED <<made, writers, dest, sent, bufs, pool, th, proc, ncalls, profile>>

\* as SetOutput, for a setter that gives the mutexWriter std has a new
\* destination
SetOutputRetarget(out) ==
  /\ CanSet
  /\ writers' = [writers EXCEPT ![loggers[Std].out].Writer = out]
  /\ nsets' = nsets + 1
  /\ UNCHANGED <<loggers, made, dest, sent, bufs, pool, th, proc, ncalls, profile>>

SetOutput(out) ==
  /\ CanSet
  /\ writers' = Append(writers, NewWriter(out))
  /\ loggers' = [loggers EXCEPT ![Std].out = Len(writers) + 1]
  /\ nsets' = nsets + 1
  /\ UNCHANGED <<made, dest, sent, bufs, pool, th, proc, ncalls, profile>>

SetLevelString(s) ==
  /\ CanSet
  /\ loggers' = [loggers EXCEPT ![Std].level = setLevelString(loggers[Std].level, s)]
  /\ nsets' = nsets + 1
  /\ UNCHANGED <<made, writers, dest, sent, bufs, pool, th, proc, ncalls, profile>>

SetLevel(level) ==
  /\ CanSet
  /\ loggers' = [loggers EXCEPT ![Std].level = level]
  /\ nsets' = nsets + 1
  /\ UNCHANGED <<made, writers, dest, sent, bufs, pool, th, proc, ncalls, profile>>

SetFileAndLine(included) ==
  /\ CanSet
  /\ loggers' = [loggers EXCEPT ![Std].fileAndLine = included]
  /\ nsets' = nsets + 1
  /\ UNCHANGED <<made, writers, dest, sent, bufs, pool, th, proc, ncalls, profile>>

(***************************************************************************)
(* Emission: an entry point and Logger.output (src/log.go:117-136), one     *)
(* action per read of shared state.                                         *)
(***************************************************************************)
\* what a goroutine is left with when output has returned to entry point fn:
\* Fatal and Fatalf go on to os.Exit(1)
Returned(r, fn) ==
  [r EXCEPT !.pc = "idle", !.ret = IF IsFatal(fn) THEN "exited" ELSE "returned"]

ProcAfterReturn(fn) == IF IsFatal(fn) THEN "exit1" ELSE "running"

\* as New, for a pool that hands out a buffer it handed out before
NewShared(bs) == IF Len(bs) = 0 THEN 1 ELSE Len(bs)

\* bufPool.New (src/log.go:17-20): a buffer that no emission has, the next of bs
New(bs) == Len(bs) + 1

\* An entry point is called on logger l from call site site: the body is built,
\* output tests the level (src/log.go:118) and, for a visible message,
\* takes a buffer from bufPool.New (src/log.go:122).
Call(t, e, l, site) ==
  /\ proc = "running"
  /\ th[t].pc = "idle"
  /\ ncalls < profile.maxcalls
  /\ e.fn \in EntryPoints
  /\ e.fn \in PackageFuncs => l = Std
  /\ ncalls' = ncalls + 1
  /\ LET level == EntryLevel(e.fn)
         min == loggers[l].level
         r == [IdleThread EXCEPT !.fn = e.fn, !.args = <<e.format, e.v>>, !.l = l,
                                 !.level = level, !.min = min, !.cfg = loggers[l],
                                 !.s = Body(e.fn, e.format, e.v),
                                 !.stack = <<site, EntryFrame(e.fn)>>]
     IN  IF Visible(level, min)
           THEN /\ bufs' = Append(bufs, <<>>)
                /\ th' = [th EXCEPT ![t] = [r EXCEPT !.pc = "format", !.buf = New(bufs)]]
                /\ proc' = proc
           ELSE /\ bufs' = bufs
                /\ th' = [th EXCEPT ![t] = Returned(r, e.fn)]
                /\ proc' = ProcAfterReturn(e.fn)
  /\ UNCHANGED <<loggers, made, writers, dest, sent, pool, nsets, profile>>

\* src/log.go:125-130: the buffer is cut to length 0, then gets the header and
\* the body
Format(t, now) ==
  /\ proc = "running"
  /\ th[t].pc = "format"
  /\ LET lg == loggers[th[t].l]
         cut == SubSeq(bufs[th[t].buf], 1, 0)
         hdr == formatHeader(now, lg.tag, lg.fileAndLine, th[t].level, th[t].stack)
     IN  bufs' = [bufs EXCEPT ![th[t].buf] = appendBody(cut \o hdr, th[t].s)]
  /\ th' = [th EXCEPT ![t].pc = "write", ![t].tag = loggers[th[t].l].tag,
                      ![t].fl = loggers[th[t].l].fileAndLine]
  /\ UNCHANGED <<loggers, made, writers, dest, sent, pool, proc, ncalls, nsets, profile>>

\* src/log.go:132: l.out is read and its Write is called
Write(t) ==
  /\ proc = "running"
  /\ th[t].pc = "write"
  /\ th' = [th EXCEPT ![t].pc = "lock", ![t].w = loggers[th[t].l].out]
  /\ UNCHANGED <<loggers, made, writers, dest, sent, bufs, pool, proc, ncalls, nsets, profile>>

\* as MuFree, for a Lock that never waits
MuFreeAlways(w) == w \in 1..Len(writers)

\* sync.Mutex.Lock returns only when the mutex is free
MuFree(w) == writers[w].mu = 0

\* src/log.go:30
Lock(t) ==
  /\ proc = "running"
  /\ th[t].pc = "lock"
  /\ MuFree(th[t].w)
  /\ writers' = [writers EXCEPT ![th[t].w].mu = t]
  /\ th' = [th EXCEPT ![t].pc = "inwrite"]
  /\ UNCHANGED <<loggers, made, dest, sent, bufs, pool, proc, ncalls, nsets, profile>>

\* the bytes a destination takes in its first step
Chunk(b) == (Len(b) + 1) \div 2

\* as Unlocked, without the deferred Unlock
StillLocked(w) == writers

\* the lock after the deferred Unlock of src/log.go:31
Unlocked(w) == [writers EXCEPT ![w].mu = 0]

\* src/log.go:33: the destination's Write begins. It fails at once, or takes
\* a first part of the bytes.
WriterWriteBegin(t, res) ==
  /\ proc = "running"
  /\ th[t].pc = "inwrite"
  /\ res \in profile.results
  /\ LET w == th[t].w
         d == writers[w].Writer
         b == bufs[th[t].buf]
     IN  /\ sent' = Append(sent, [w |-> w, d |-> d, t |-> t, buf |-> th[t].buf])
         /\ IF res = "err0"
              THEN LET r == [n |-> 0, err |-> "EIO"] IN
                   /\ dest' = [dest EXCEPT ![d].calls = @ + 1, ![d].broken = TRUE,
                                           ![d].last = r]
                   /\ writers' = Unlocked(w)
                   /\ th' = [th EXCEPT ![t].pc = "ret", ![t].n = r.n, ![t].err = r.err,
                                       ![t].writes = @ + 1]
              ELSE /\ dest' = [dest EXCEPT ![d].calls = @ + 1,
                                           ![d].data = @ \o SubSeq(b, 1, Chunk(b))]
                   /\ writers' = writers
                   /\ th' = [th EXCEPT ![t].pc = "inwrite2", ![t].n = Chunk(b),
                                       ![t].writes = @ + 1]
  /\ UNCHANGED <<loggers, made, bufs, pool, proc, ncalls, nsets, profile>>

\* src/log.go:33 and 31: the destination's Write ends, with the rest of the
\* bytes or without, and mutexWriter.Write unlocks and returns its result.
WriterWriteEnd(t, res) ==
  /\ proc = "running"
  /\ th[t].pc = "inwrite2"
  /\ res \in profile.results \ {"err0"}
  /\ LET w == th[t].w
         d == writers[w].Writer
         b == bufs[th[t].buf]
         r == [n |-> IF res = "ok" THEN Len(b) ELSE th[t].n,
               err |-> IF res = "err1" THEN "EIO" ELSE ""]
     IN  /\ dest' = IF res = "ok"
                      THEN [dest EXCEPT ![d].data = @ \o SubSeq(b, th[t].n + 1, Len(b)),
                                        ![d].last = r]
                      ELSE [dest EXCEPT ![d].broken = TRUE, ![d].last = r]
         /\ writers' = Unlocked(w)
         /\ th' = [th EXCEPT ![t].pc = "ret", ![t].n = r.n, ![t].err = r.err]
  /\ UNCHANGED <<loggers, made, sent, bufs, pool, proc, ncalls, nsets, profile>>

\* as Put, for a buffer that is dropped
PutNever(p, buf) == p

\* sync.Pool.Put: the pool with one more buf
Put(p, buf) == p (+) SetToBag({buf})

\* as Failed, for an error that is dropped
FailedNever(err) == err # err

\* the test of src/log.go:133; "" stands for nil
Failed(err) == err # ""

\* src/log.go:133-136 and the deferred bufPool.Put of src/log.go:123: output
\* panics with the error or returns; either way the buffer goes to the pool.
Return(t) ==
  /\ proc = "running"
  /\ th[t].pc = "ret"
  /\ pool' = Put(pool, th[t].buf)
  /\ IF Failed(th[t].err)
       THEN /\ th' = [th EXCEPT ![t].pc = "panic", ![t].ret = "panicked",
                                ![t].pv = th[t].err]
            /\ proc' = proc
       ELSE /\ th' = [th EXCEPT ![t] = Returned(th[t], th[t].fn)]
            /\ proc' = ProcAfterReturn(th[t].fn)
  /\ UNCHANGED <<loggers, made, writers, dest, sent, bufs, ncalls, nsets, profile>>

\* the panic of src/log.go:134 reaches a deferred recover of the calling code
Recover(t) ==
  /\ proc = "running"
  /\ th[t].pc = "panic"
  /\ th' = [th EXCEPT ![t].pc = "idle"]
  /\ UNCHANGED <<loggers, made, writers, dest, sent, bufs, pool, proc, ncalls, nsets, profile>>

\* the panic of src/log.go:134 reaches the top of the goroutine: the process
\* ends (with status 2)
Crash(t) ==
  /\ proc = "running"
  /\ th[t].pc = "panic"
  /\ proc' = "crashed"
  /\ UNCHANGED <<loggers, made, writers, dest, sent, bufs, pool, th, ncalls, nsets, profile>>

\* the configuration calls
ConfigNext ==
  \/ \E l \in 1..Len(loggers), tag \in profile.tags : WithTag(l, tag)
  \/ \E l \in 1..Len(loggers), level \in profile.levels : WithLevel(l, level)
  \/ \E l \in 1..Len(loggers), out \in profile.outs : WithOutput(l, out)
  \/ \E l \in 1..Len(loggers), included \in profile.flags : WithFileAndLine(l, included)
  \/ \E tag \in profile.tags : SetTag(tag)
  \/ \E out \in profile.outs : SetOutput(out)
  \/ \E s \in profile.lstrings : SetLevelString(s)
  \/ \E level \in profile.levels : SetLevel(level)
  \/ \E included \in profile.flags : SetFileAndLine(included)

\* the steps of the emissions
EmitNext ==
  \/ \E t \in profile.threads, e \in profile.entries, l \in 1..Len(loggers) :
       Call(t, e, l, Site1)
  \/ \E t \in profile.threads, now \in profile.clocks : Format(t, now)
  \/ \E t \in profile.threads : Write(t)
  \/ \E t \in profile.threads : Lock(t)
  \/ \E t \in profile.threads, res \in WriteResults : WriterWriteBegin(t, res)
  \/ \E t \in profile.threads, res \in WriteResults : WriterWriteEnd(t, res)
  \/ \E t \in profile.threads : Return(t)
  \/ \E t \in profile.threads : Recover(t)
  \/ \E t \in profile.threads : Crash(t)

Next == ConfigNext \/ EmitNext

Spec == Init /\ [][Next]_vars

\* The goroutines' steps inside mutexWriter.Write are taken: a goroutine
\* waiting in sync.Mutex.Lock gets the mutex when it is free again and again
\* (sync.Mutex hands the mutex to a starving waiter), and the destination's
\* Write, once called, goes on and returns.
Fairness ==
  \A t \in Threads :
    /\ SF_vars(Lock(t))
    /\ WF_vars(\E res \in WriteResults : WriterWriteBegin(t, res))
    /\ WF_vars(\E res \in WriteResults : WriterWriteEnd(t, res))

\* the runs of FailProfile, which makes no configuration call, under Fairness
FairSpec == InitOf(FailProfile) /\ [][EmitNext]_vars /\ Fairness

(***************************************************************************)
(* Properties.                                                              *)
(***************************************************************************)
InFlight == {"format", "write", "lock", "inwrite", "inwrite2", "ret"}

\* the goroutines inside mutexWriter.Write of writer w, past Lock
Inside(w) == {t \in Threads : th[t].pc \in {"inwrite", "inwrite2"} /\ th[t].w = w}

\* C1: an emission at level L through a logger whose minimum level it read as M
\* makes exactly one Write call on the sink when L <= M, and when L > M it
\* makes none and takes no buffer: it is in flight only when L <= M, it has
\* made one Write call once the destination's Write has begun and none
\* before, and when it has returned it has made one if L <= M and else none.
C1_LevelFilter ==
  \A t \in Threads :
    LET r == th[t] IN
    /\ r.pc \in InFlight \cup {"panic"} => r.level <= r.min /\ r.buf # 0
    /\ r.pc \in {"format", "write", "lock", "inwrite"} => r.writes = 0
    /\ r.pc \in {"inwrite2", "ret", "panic"} => r.writes = 1
    /\ (r.pc = "idle" /\ r.ret # "none") =>
         IF r.level <= r.min THEN r.writes = 1 /\ r.buf # 0
                             ELSE r.writes = 0 /\ r.buf = 0
    /\ dest["stderr"].calls + dest["file"].calls = Len(sent)
    /\ Len(sent) <= Len(bufs)

\* C1 witness: a Debug message through a logger of minimum level Error has
\* returned without a Write call or a buffer
C1_Witness ==
  \E t \in Threads :
    /\ th[t].pc = "idle" /\ th[t].ret = "returned"
    /\ th[t].level = LevelDebug /\ th[t].min = LevelError
    /\ th[t].writes = 0 /\ th[t].buf = 0
    /\ Len(sent) = 0 /\ Len(bufs) = 0

RECURSIVE Flatten(_)
Flatten(ss) == IF ss = <<>> THEN <<>> ELSE Head(ss) \o Flatten(Tail(ss))

\* the Write calls destination d got
SentTo(d) == SelectSeq(sent, LAMBDA e : e.d = d)

\* the mutexWriter values through which destination d was written
WritersOf(d) == {sent[i].w : i \in {j \in 1..Len(sent) : sent[j].d = d}}

\* the goroutines whose Write on destination d has begun and not ended
Writing(d) ==
  {t \in Threads : th[t].pc = "inwrite2" /\ writers[th[t].w].Writer = d}

\* the bytes destination d holds when its Write calls run one after another:
\* the whole buffer of each call, and of a call still running the part taken
WholeLines(d) ==
  LET es == SentTo(d)
      lines == [i \in 1..Len(es) |->
                  IF i = Len(es) /\ Writing(d) # {}
                    THEN SubSeq(bufs[es[i].buf], 1, th[es[i].t].n)
                    ELSE bufs[es[i].buf]]
  IN  Flatten(lines)

\* the buffers of the emissions whose Write call has begun
Begun ==
  BagToSet(pool) \cup {th[t].buf : t \in {u \in Threads : th[u].pc \in {"inwrite2", "ret"}}}

\* C2: whatever the interleaving of the goroutines, the byte stream of a
\* destination written through one mutexWriter (and whose Write never failed)
\* is the buffers of the emissions, each whole and in the order their Write
\* calls began, and every emission whose Write has begun has its buffer in
\* the stream once, every other not at all.
C2_WholeLines ==
  /\ \A d \in Dests :
       (Cardinality(WritersOf(d)) <= 1 /\ ~dest[d].broken) =>
         dest[d].data = WholeLines(d)
  /\ \A b \in 1..Len(bufs) :
       Cardinality({i \in 1..Len(sent) : sent[i].buf = b})
         = IF b \in Begun THEN 1 ELSE 0

\* C2 witness: every goroutine has emitted through one mutexWriter, all
\* calls are made and have returned, and the stream holds their lines
C2_Witness ==
  /\ profile.name = "conc"
  /\ ncalls = MaxCalls
  /\ \A t \in Threads : th[t].pc = "idle" /\ th[t].ret = "returned"
  /\ {sent[i].t : i \in 1..Len(sent)} = Threads
  /\ Len(SentTo("stderr")) = MaxCalls
  /\ WritersOf("stderr") = {1}
  /\ dest["stderr"].data = WholeLines("stderr")

\* C3: at most one goroutine at a time is inside the Write of one mutexWriter,
\* and the mutexWriter's lock is held by that goroutine; loggers derived by
\* WithTag, WithLevel and WithFileAndLine have their origin's mutexWriter.
C3_OneWriterInside ==
  /\ \A w \in 1..Len(writers) :
       /\ Cardinality(Inside(w)) <= 1
       /\ \A t \in Inside(w) : writers[w].mu = t
  /\ \A i \in 2..Len(loggers) :
       made[i].op \in {"WithTag", "WithLevel", "WithFileAndLine"} =>
         loggers[i].out = made[i].recv.out

\* C3 witness: a goroutine is inside the Write of the default logger's sink
\* while another, emitting through a logger derived from it, waits for the lock
C3_Witness ==
  \E t, u \in Threads :
    /\ th[t].pc = "inwrite2" /\ th[t].l = Std
    /\ th[u].pc = "lock" /\ th[u].l # Std
    /\ made[th[u].l].op = "WithTag"
    /\ th[u].w = th[t].w

\* C4, on the loggers made so far: a logger made by WithTag, WithLevel or
\* WithFileAndLine has its receiver's fields but the one given, one made by
\* WithOutput has the receiver's tag, level and flag and a mutexWriter around
\* the given destination that no logger made before has, and a receiver
\* that no setter can reach has the fields it had at the call.
C4_State ==
  \A i \in 2..Len(loggers) :
    LET m == made[i]
        n == loggers[i]
        r == m.recv
    IN  /\ m.op = "WithTag" => n = [r EXCEPT !.tag = m.arg]
        /\ m.op = "WithLevel" => n = [r EXCEPT !.level = m.arg]
        /\ m.op = "WithFileAndLine" => n = [r EXCEPT !.fileAndLine = m.arg]
        /\ m.op = "WithOutput" =>
             /\ n.tag = r.tag /\ n.level = r.level /\ n.fileAndLine = r.fileAndLine
             /\ n.out # r.out
             /\ writers[n.out].Writer = m.arg
             /\ \A j \in 2..(i - 1) : loggers[j].out # n.out
        /\ m.op \in {"WithTag", "WithLevel", "WithFileAndLine", "WithOutput"}
        /\ (m.from # Std \/ nsets = 0) => loggers[m.from] = r

\* C4, on the steps: a step that makes a logger changes no logger and no
\* mutexWriter that exists, and a step that makes none leaves every derived
\* logger as it is.
C4_Step ==
  /\ Len(loggers') >= Len(loggers)
  /\ Len(writers') >= Len(writers)
  /\ \A i \in 2..Len(loggers) : loggers'[i] = loggers[i]
  /\ Len(loggers') > Len(loggers) =>
       /\ loggers'[Std] = loggers[Std]
       /\ Len(loggers') = Len(loggers) + 1
       /\ \A w \in 1..Len(writers) : writers'[w] = writers[w]
       /\ Len(writers') > Len(writers) =>
            /\ made'[Len(loggers')].op = "WithOutput"
            /\ writers'[Len(writers')].mu = 0
            /\ loggers'[Len(loggers')].out = Len(writers')

\* C4: each of WithTag, WithLevel, WithOutput and WithFileAndLine leaves the
\* receiver's fields unchanged and returns a new logger equal to the
\* receiver in all fields but the one overridden, which for WithOutput is a
\* new mutexWriter, its lock free, around the given destination.
C4_WithFrame == []C4_State /\ [][C4_Step]_vars

\* C4 witness: a logger made by WithOutput from a logger made by WithTag,
\* with the tag of the one and a mutexWriter the other does not have
C4_Witness ==
  \E i \in 2..Len(loggers) :
    /\ made[i].op = "WithOutput" /\ made[i].from # Std
    /\ made[made[i].from].op = "WithTag"
    /\ loggers[i].tag = sWorker
    /\ loggers[i].out # loggers[made[i].from].out
    /\ writers[loggers[i].out] = [mu |-> 0, Writer |-> "file"]

\* the buffers that hold a formatted line: those of the emissions past
\* src/log.go:130
Formatted ==
  {t \in Threads :
     \/ th[t].pc \in {"write", "lock", "inwrite", "inwrite2", "ret", "panic"}
     \/ th[t].pc = "idle" /\ th[t].buf # 0}

EndsWithTwo(x) == Len(x) >= 2 /\ x[Len(x)] = "\n" /\ x[Len(x) - 1] = "\n"

\* the last n elements of x
Suffix(x, n) == SubSeq(x, Len(x) - n + 1, Len(x))

\* C5 as stated: the bytes a visible emission writes end with exactly one
\* line terminator, for every message body.
C5_ExactlyOneTerminator ==
  \A t \in Formatted :
    LET b == bufs[th[t].buf] IN
    /\ Len(b) >= 1 /\ b[Len(b)] = "\n"
    /\ ~EndsWithTwo(b)

\* C5 amended: the bytes a visible emission writes end with a line
\* terminator: they end with the body when the body ends with one and with
\* the body and one terminator otherwise, so that they end with two
\* terminators exactly when the body does.
C5_EndsWithTerminator ==
  \A t \in Formatted :
    LET b == bufs[th[t].buf]
        s == th[t].s
    IN  /\ Len(b) > Len(s) /\ b[Len(b)] = "\n"
        /\ IF Len(s) > 0 /\ s[Len(s)] = "\n"
             THEN Suffix(b, Len(s)) = s
             ELSE Suffix(b, Len(s) + 1) = s \o <<"\n">>
        /\ EndsWithTwo(b) <=> EndsWithTwo(s)

\* C5 witness: an emission whose body ends with a terminator has written a
\* line that ends with that one terminator
C5_Witness ==
  \E t \in Threads :
    /\ th[t].pc = "idle" /\ th[t].ret = "returned" /\ th[t].writes = 1
    /\ th[t].s = <<"a", "\n">>
    /\ Suffix(bufs[th[t].buf], 3) = <<"]", "a", "\n">>
    /\ Suffix(dest[writers[th[t].w].Writer].data, 3) = <<"]", "a", "\n">>

\* C6: when the destination's Write returns an error, the emission does not
\* return to its caller: it panics with that error, after the one Write call.
C6_WriteErrorPanics ==
  \A t \in Threads :
    LET r == th[t] IN
    /\ (r.err # "" /\ r.pc # "ret") =>
         /\ r.pc \in {"panic", "idle"}
         /\ r.ret = "panicked" /\ r.pv = r.err
         /\ r.writes = 1
    /\ r.ret \in {"returned", "exited"} => r.err = "" /\ r.pv = ""
    /\ r.ret = "panicked" => r.err # ""

\* C6 witness: an emission through a Logger method has panicked with the
\* destination's error
C6_Witness ==
  \E t \in Threads :
    /\ th[t].pc = "panic" /\ th[t].fn \in LoggerMethods
    /\ th[t].err = "EIO" /\ th[t].pv = "EIO" /\ th[t].writes = 1
    /\ proc = "running"

\* C7 as stated: every call of Fatal or Fatalf reaches os.Exit(1): it does not
\* panic, and when it has ended the process has exited with status 1.
C7_FatalAlwaysExits ==
  \A t \in Threads :
    IsFatal(th[t].fn) =>
      /\ th[t].pc # "panic"
      /\ th[t].ret # "panicked"
      /\ (th[t].pc = "idle" => proc = "exit1")

JobOperands == <<StrOp(sJob), IntOp(42), StrOp(sDone)>>

\* the emissions Info("job", 42, "done") through a logger derived from the
\* default one with tag "worker", past src/log.go:130
JobCalls ==
  {t \in Formatted :
     /\ th[t].fn = "Logger.Info" /\ th[t].args = <<<<>>, JobOperands>>
     /\ th[t].l # Std
     /\ loggers[th[t].l] = [DefaultLogger EXCEPT !.tag = sWorker]}

\* a line without its timestamp
AfterTimestamp(b) == SubSeq(b, 25, Len(b))

\* C8 as stated: the line of Info("job", 42, "done") is, after the timestamp,
\* "[I][worker] job 42 done\n".
C8_JobLineSpaced ==
  \A t \in JobCalls :
    AfterTimestamp(bufs[th[t].buf])
      = <<"[","I","]","[","w","o","r","k","e","r","]"," ",
          "j","o","b"," ","4","2"," ","d","o","n","e","\n">>

\* C8 amended: the line of Info("job", 42, "done") is, after the timestamp,
\* "[I][worker] job42done\n": Sprint puts no space beside a string operand;
\* and the emission, once returned, has made one Write call.
C8_JobLine ==
  \A t \in JobCalls :
    /\ AfterTimestamp(bufs[th[t].buf])
         = <<"[","I","]","[","w","o","r","k","e","r","]"," ",
             "j","o","b","4","2","d","o","n","e","\n">>
    /\ \E now \in profile.clocks : SubSeq(bufs[th[t].buf], 1, 24) = FormatTime(now)
    /\ th[t].pc = "idle" => th[t].writes = 1

\* C8 witness: that emission has returned and its line is in the stream
C8_Witness ==
  \E t \in JobCalls :
    /\ th[t].pc = "idle" /\ th[t].ret = "returned" /\ th[t].writes = 1
    /\ dest["stderr"].data = bufs[th[t].buf]
    /\ Len(bufs[th[t].buf]) = 46

\* s is w in some letter case
EqualFold(s, w) ==
  /\ Len(s) = Len(w)
  /\ \A i \in 1..Len(w) :
       s[i] = w[i] \/ \E k \in 1..26 : Lower[k] = w[i] /\ Upper[k] = s[i]

\* the level the tokens name
TokenLevel(s, old) ==
  CASE EqualFold(s, <<"e","r","r","o","r">>) \/ EqualFold(s, <<"e">>) -> LevelError
    [] EqualFold(s, <<"w","a","r","n","i","n","g">>) \/ EqualFold(s, <<"w">>)
         -> LevelWarning
    [] EqualFold(s, <<"i","n","f","o">>) \/ EqualFold(s, <<"i">>) -> LevelInfo
    [] EqualFold(s, <<"d","e","b","u","g">>) \/ EqualFold(s, <<"d">>) -> LevelDebug
    [] OTHER -> old

C9_Step ==
  \A s \in LevelStrings :
    SetLevelString(s) =>
      /\ loggers' = [loggers EXCEPT ![Std].level = TokenLevel(s, loggers[Std].level)]
      /\ writers' = writers /\ proc' = proc /\ th' = th /\ dest' = dest

\* C9: SetLevelString sets the default logger's level to the level its
\* argument names, in any letter case, and for any other argument changes
\* nothing of the default logger; it changes no other logger and ends no
\* emission and no process.
C9_SetLevelString == [][C9_Step]_vars

\* C9 witness: the default logger is at level Debug after SetLevelString
\* calls alone
C9_Witness ==
  /\ profile.name = "set"
  /\ nsets = MaxSets
  /\ loggers[Std] = [DefaultLogger EXCEPT !.level = LevelDebug]

\* the loggers made by the same WithTag call: one receiver, with the same
\* fields, and one tag
Twins(i, j) ==
  /\ i # j
  /\ made[i].op = "WithTag" /\ made[j].op = "WithTag"
  /\ made[i].from = made[j].from /\ made[i].recv = made[j].recv
  /\ made[i].arg = made[j].arg

\* C10: two calls of WithTag with one tag on one logger give two loggers
\* with the same field values, the receiver's mutexWriter among them, and a
\* logger derived later from one of the two leaves both, and a receiver no
\* setter can reach, as they were.
C10_WithTagTwice ==
  \A i, j \in 2..Len(loggers) :
    Twins(i, j) =>
      /\ loggers[i] = loggers[j]
      /\ loggers[i].tag = made[i].arg
      /\ loggers[i].out = made[i].recv.out
      /\ \A k \in 2..Len(loggers) :
           made[k].from \in {i, j} => made[k].recv = loggers[i]
      /\ (made[i].from # Std \/ nsets = 0) => loggers[made[i].from] = made[i].recv

\* C10 witness: two loggers made by WithTag("worker") on the default logger
\* and a third made from the first by WithOutput, which differs from it
C10_Witness ==
  \E i, j, k \in 2..Len(loggers) :
    /\ Twins(i, j) /\ made[i].from = Std /\ made[i].arg = sWorker
    /\ made[k].from = i /\ made[k].op = "WithOutput"
    /\ loggers[k].out # loggers[i].out
    /\ loggers[j].out = loggers[Std].out

\* the line terminators in x
Terminators(x) == Cardinality({i \in 1..Len(x) : x[i] = "\n"})

\* the emissions whose one Write call has been made
Written == {t \in Formatted : th[t].writes = 1}

\* C11 as stated: the bytes a visible emission passes to the sink in its Write
\* call hold exactly one line terminator, their last byte, for every message
\* body.
C11_ExactlyOneLine ==
  \A t \in Written :
    LET b == bufs[th[t].buf] IN
    /\ Len(b) >= 1 /\ b[Len(b)] = "\n"
    /\ Terminators(b) = 1

\* C11 amended: the bytes a visible emission passes to the sink in its one
\* Write call end with a line terminator and hold the terminators of the
\* body, and one more when the body is empty or does not end with one; they
\* are exactly one line when the body holds no terminator but a last one.
C11_BodyTerminatorsKept ==
  \A t \in Written :
    LET b == bufs[th[t].buf]
        s == th[t].s
        ends == Len(s) > 0 /\ s[Len(s)] = "\n"
    IN  /\ Cardinality({i \in 1..Len(sent) : sent[i].buf = th[t].buf}) = 1
        /\ Len(b) >= 1 /\ b[Len(b)] = "\n"
        /\ Terminators(b) = Terminators(s) + (IF ends THEN 0 ELSE 1)
        /\ Terminators(b) = 1 <=>
             \A i \in 1..(Len(s) - 1) : s[i] # "\n"

\* C11 witness: an emission whose body holds a terminator before its last
\* byte has returned, and the bytes of its Write call hold two terminators
C11_Witness ==
  \E t \in Written :
    /\ th[t].pc = "idle" /\ th[t].ret = "returned"
    /\ th[t].s = <<"a", "\n", "b">>
    /\ Suffix(bufs[th[t].buf], 4) = <<"a", "\n", "b", "\n">>
    /\ Terminators(bufs[th[t].buf]) = 2
    /\ Suffix(dest[writers[th[t].w].Writer].data, 4) = <<"a", "\n", "b", "\n">>

\* the emissions that have returned to their caller after a Write call
ReturnedWritten ==
  {t \in Written : th[t].pc = "idle" /\ th[t].ret \in {"returned", "exited"}}

\* C12 as stated: when a visible emission has returned to its caller, the
\* destination has accepted every byte of the buffer, whatever (count, error)
\* its Write returned, a count below the buffer's length included.
C12_NoPartialFailure ==
  \A t \in ReturnedWritten :
    LET b == bufs[th[t].buf]
        d == writers[th[t].w].Writer
    IN  /\ th[t].n = Len(b)
        /\ Len(dest[d].data) >= Len(b)
        /\ Suffix(dest[d].data, Len(b)) = b

\* goroutine t takes its buffer in this step (src/log.go:122)
Checkout(t) == th[t].pc = "idle" /\ th'[t].pc = "format"

C13_Step ==
  \A t \in Threads :
    (Checkout(t) /\ pool # EmptyBag) =>
      /\ th'[t].buf \in BagToSet(pool)
      /\ pool' = pool (-) SetToBag({th'[t].buf})
      /\ Len(bufs') = Len(bufs)

\* C13 as stated: a visible emission that takes its buffer while bufPool
\* holds a returned one checks that buffer out of the pool and allocates
\* none, so that the buffers earlier emissions returned serve later ones.
C13_PoolReuse == [][C13_Step]_vars

\* the buffers of the emissions in flight
Held == {th[t].buf : t \in {u \in Threads : th[u].pc \in InFlight}}

\* the emissions that have ended after taking a buffer
Ended == {t \in Threads : th[t].pc \in {"idle", "panic"} /\ th[t].buf # 0}

C14_State ==
  /\ \A b \in 1..Len(bufs) : CopiesIn(b, pool) = IF b \in Held THEN 0 ELSE 1
  /\ \A t \in Ended :
       /\ th[t].ret \in {"returned", "exited", "panicked"}
       /\ CopiesIn(th[t].buf, pool) = 1
  /\ BagToSet(pool) \subseteq 1..Len(bufs)

C14_Step ==
  \A b \in 1..Len(bufs') :
    CopiesIn(b, pool') # CopiesIn(b, pool) =>
      /\ CopiesIn(b, pool') = CopiesIn(b, pool) + 1
      /\ \E t \in Threads :
           /\ th[t].buf = b /\ th[t].pc = "ret"
           /\ th'[t].pc = IF th[t].err # "" THEN "panic" ELSE "idle"

\* C14: the buffer a visible emission took is put into bufPool exactly once,
\* in the step that ends the emission, whether output returns after a Write
\* without error or panics after a Write with one: the pool holds no buffer
\* of an emission in flight and each buffer of an ended emission once, and
\* a buffer enters the pool only as its emission ends.
C14_BufferPutOnce == []C14_State /\ [][C14_Step]_vars

\* C14 witness: an emission whose Write failed has panicked, and the pool
\* holds its buffer once
C14_Witness ==
  \E t \in Ended :
    /\ th[t].pc = "panic" /\ th[t].ret = "panicked" /\ th[t].err = "EIO"
    /\ CopiesIn(th[t].buf, pool) = 1
    /\ BagCardinality(pool) = 1

\* the goroutines whose emission is in flight
Emitting == {t \in Threads : th[t].pc \in InFlight}

\* C15: while an emission is in flight its buffer is held by its goroutine
\* alone: no two emissions in flight have one buffer, bufPool does not hold
\* the buffer of an emission in flight, and the buffer of an emission past
\* formatting ends with that emission's own body.
C15_BufferExclusive ==
  /\ \A t, u \in Emitting : t # u => th[t].buf # th[u].buf
  /\ \A t \in Emitting :
       /\ th[t].buf \in 1..Len(bufs)
       /\ CopiesIn(th[t].buf, pool) = 0
       /\ th[t].pc # "format" =>
            LET b == bufs[th[t].buf]
                tail == appendBody(<<>>, th[t].s)
            IN  Len(b) > Len(tail) /\ Suffix(b, Len(tail)) = tail
  /\ Cardinality({th[t].buf : t \in Emitting}) = Cardinality(Emitting)

\* C15 witness: two goroutines emit at once with different bodies, one inside
\* the destination's Write and one waiting for the lock, each with its own
\* buffer, while bufPool holds neither
C15_Witness ==
  \E t, u \in Emitting :
    /\ t # u
    /\ th[t].pc = "inwrite2" /\ th[u].pc = "lock"
    /\ th[t].s # th[u].s
    /\ th[t].buf # th[u].buf
    /\ CopiesIn(th[t].buf, pool) = 0 /\ CopiesIn(th[u].buf, pool) = 0

\* goroutine t's call of mutexWriter.Write ends in this step
WriteEnds(t) == th[t].pc \in {"inwrite", "inwrite2"} /\ th'[t].pc = "ret"

C16_State ==
  /\ \A w \in 1..Len(writers) :
       /\ writers[w].mu \in {0} \cup Threads
       /\ writers[w].mu # 0 =>
            /\ th[writers[w].mu].pc \in {"inwrite", "inwrite2"}
            /\ th[writers[w].mu].w = w
  /\ \A t \in Threads :
       th[t].pc \in {"ret", "panic", "idle"} =>
         \A w \in 1..Len(writers) : writers[w].mu # t

C16_Step ==
  \A t \in Threads :
    WriteEnds(t) =>
      LET w == th[t].w
          d == writers[w].Writer
      IN  /\ writers[w].mu = t /\ writers'[w].mu = 0
          /\ th'[t].n = dest'[d].last.n /\ th'[t].err = dest'[d].last.err
          /\ th'[t].err = "" =>
               th'[t].n - th[t].n = Len(dest'[d].data) - Len(dest[d].data)

C16_Acquires ==
  \A t \in Threads :
    (th[t].pc = "lock") ~> (th[t].pc = "inwrite" \/ proc # "running")

\* C16: mutexWriter.Write unlocks on every way out, the destination's Write
\* returning an error included, and returns the (count, error) the
\* destination returned: the lock is held only by a goroutine inside Write,
\* the step that ends a Write call leaves the lock free, and a goroutine
\* waiting for the lock of a mutexWriter gets it, as long as the process runs.
C16_WriteUnlocks == []C16_State /\ [][C16_Step]_vars /\ C16_Acquires

\* C16 witness: a goroutine's Write ended with the destination's error and
\* its emission has panicked; another goroutine then got the lock of the same
\* mutexWriter
C16_Witness ==
  \E t, u \in Threads :
    /\ t # u
    /\ th[t].pc = "panic" /\ th[t].err = "EIO" /\ th[t].n = dest["stderr"].last.n
    /\ th[u].pc = "inwrite" /\ th[u].w = th[t].w
    /\ writers[th[t].w].mu = u
    /\ Len(sent) = 1 /\ sent[1].t = t

\* x holds y as a run of neighbouring elements
Contains(x, y) ==
  \E i \in 0..(Len(x) - Len(y)) : SubSeq(x, i + 1, i + Len(y)) = y

\* the line of an emission, from its fields and the text of its call site
LineWith(now, level, tag, site, s) ==
  FormatTime(now) \o String(level)
    \o (IF tag = <<>> THEN <<>> ELSE <<"[">> \o tag \o <<"]", " ">>)
    \o site \o s \o (IF s # <<>> /\ s[Len(s)] = "\n" THEN <<>> ELSE <<"\n">>)

\* C17: with fileAndLine on, the file:line of a line is that of the code that
\* called the entry point, whichever of the Logger methods Error .. Debugf and
\* the package-level functions Error .. Debugf, Fatal and Fatalf was called,
\* and no file of the package is named in the line.
C17_CallSite ==
  \A t \in Formatted :
    th[t].fl =>
      LET b == bufs[th[t].buf] IN
      /\ th[t].fn \in EntryPoints
      /\ th[t].stack[1] = Site1
      /\ \E now \in profile.clocks :
           b = LineWith(now, th[t].level, th[t].tag,
                        <<"m", ".", "g", "o", ":", "7", " ">>, th[t].s)
      /\ ~Contains(b, LogGo) /\ ~Contains(b, StdGo)
      /\ ~Contains(b, <<"?", "?", "?">>)

\* C17 witness: Fatalf, called on the default logger with fileAndLine on, has
\* written a line with the file:line of its caller
C17_Witness ==
  \E t \in Formatted :
    /\ th[t].fn = "Fatalf" /\ th[t].fl /\ th[t].tag = <<>>
    /\ th[t].pc = "idle" /\ th[t].ret = "exited"
    /\ SubSeq(bufs[th[t].buf], 25, 36)
         = <<"[", "E", "]", "m", ".", "g", "o", ":", "7", " ", "a", "\n">>
    /\ dest["stderr"].data = bufs[th[t].buf]

\* a setter may be called
SetterCallable == proc = "running" /\ nsets < profile.maxsets

\* the step is a call of a package-level setter
SetterStep == nsets' = nsets + 1

C18_State ==
  /\ SetterCallable =>
       /\ \A tag \in profile.tags : ENABLED SetTag(tag)
       /\ \A out \in profile.outs : ENABLED SetOutput(out)
       /\ \A level \in profile.levels : ENABLED SetLevel(level)
       /\ \A s \in profile.lstrings : ENABLED SetLevelString(s)
       /\ \A included \in profile.flags : ENABLED SetFileAndLine(included)
  /\ \A t \in Formatted :
       /\ th[t].level <= th[t].cfg.level
       /\ \E now \in profile.clocks :
            bufs[th[t].buf]
              = LineWith(now, th[t].level, th[t].tag,
                         IF th[t].fl THEN <<"m", ".", "g", "o", ":", "7", " ">>
                                     ELSE <<>>,
                         th[t].s)

C18_Step ==
  /\ SetterStep =>
       /\ th' = th /\ bufs' = bufs /\ dest' = dest /\ pool' = pool
       /\ \A w \in 1..Len(writers) : writers'[w] = writers[w]
       /\ \A i \in 2..Len(loggers) : loggers'[i] = loggers[i]
  /\ \A t \in Threads :
       /\ (th[t].pc = "idle" /\ th'[t].pc # "idle") =>
            th'[t].cfg = loggers[th'[t].l]
       /\ (th[t].pc = "format" /\ th'[t].pc = "write") =>
            /\ th'[t].tag = loggers[th[t].l].tag
            /\ th'[t].fl = loggers[th[t].l].fileAndLine
       /\ (th[t].pc = "write" /\ th'[t].pc = "lock") =>
            th'[t].w = loggers[th[t].l].out

\* C18: the package-level setters wait for no lock and no emission: each can
\* be called at any point of an emission, its step changes the default
\* logger alone, and an emission reads the level, then the tag and the flag,
\* then the sink, each as it is at that step, so that its line has the tag
\* and the sink of the moment they were read, not those the logger had when
\* the level was tested.
C18_SettersUnlocked == []C18_State /\ [][C18_Step]_vars

\* C18 witness: Info("a") passed the level test of the default logger as it
\* was at first; then the tag and the output were set, and the line has the new
\* tag and is in the new destination
C18_Witness ==
  \E t \in Formatted :
    /\ th[t].l = Std /\ th[t].cfg = DefaultLogger
    /\ th[t].pc = "idle" /\ th[t].ret = "returned"
    /\ th[t].tag = sWorker /\ th[t].tag # th[t].cfg.tag
    /\ th[t].w # th[t].cfg.out /\ writers[th[t].w].Writer = "file"
    /\ writers[th[t].cfg.out].Writer = "stderr"
    /\ dest["stderr"].data = <<>>
    /\ dest["file"].data = bufs[th[t].buf]
    /\ AfterTimestamp(bufs[th[t].buf])
         = <<"[","I","]","[","w","o","r","k","e","r","]"," ","a","\n">>

\* the loggers made from the default one by WithTag, WithLevel or
\* WithFileAndLine
DerivedFromStd ==
  {i \in 2..Len(loggers) :
     made[i].from = Std /\ made[i].op \in {"WithTag", "WithLevel", "WithFileAndLine"}}

\* those made before the last SetOutput: the default logger then had another
\* mutexWriter than it has now
DerivedBefore == {i \in DerivedFromStd : made[i].recv.out # loggers[Std].out}

C19_State ==
  /\ \A i \in DerivedFromStd : loggers[i].out = made[i].recv.out
  /\ \A i \in DerivedBefore : loggers[i].out < loggers[Std].out
  /\ \A t \in Threads :
       th[t].pc \in {"lock", "inwrite", "inwrite2", "ret"} /\ th[t].l \in DerivedFromStd
         => th[t].w = made[th[t].l].recv.out
  /\ \A k \in 1..Len(sent) : sent[k].d = writers[sent[k].w].Writer
  /\ writers[1].Writer = "stderr"

C19_Step ==
  /\ \A w \in 1..Len(writers) :
       /\ Len(writers') >= Len(writers)
       /\ writers'[w].Writer = writers[w].Writer
  /\ \A i \in 2..Len(loggers) : nsets' # nsets => loggers'[i] = loggers[i]
  /\ loggers'[Std].out # loggers[Std].out =>
       /\ nsets' = nsets + 1
       /\ Len(writers') = Len(writers) + 1
       /\ loggers'[Std].out = Len(writers')
       /\ writers'[Len(writers')].mu = 0
       /\ \A w \in 1..Len(writers) : writers'[w] = writers[w]
       /\ loggers'[Std] = [loggers[Std] EXCEPT !.out = Len(writers')]
  /\ Len(loggers') > Len(loggers) =>
       LET i == Len(loggers') IN
       (made'[i].from = Std /\ made'[i].op \in {"WithTag", "WithLevel", "WithFileAndLine"})
         => loggers'[i].out = loggers[Std].out
  /\ \A t \in Threads :
       (th[t].pc = "write" /\ th'[t].pc = "lock" /\ th[t].l = Std)
         => th'[t].w = loggers[Std].out

\* C19: SetOutput gives the default logger a new mutexWriter, its lock free,
\* and leaves the one it had as it was: a logger made from the default one by
\* WithTag, WithLevel or WithFileAndLine before the call keeps the mutexWriter
\* the default logger had then, with its destination and its lock, and writes
\* through it; one made after the call has the new one, as the default logger
\* has; and no setter changes a logger made before it.
C19_SetOutputNewWriter == []C19_State /\ [][C19_Step]_vars

\* C19 witness: a logger made by WithTag before SetOutput("file") has written
\* its line to stderr through the first mutexWriter, and the new destination
\* of the default logger has nothing
C19_Witness ==
  \E t \in Threads :
    /\ th[t].l \in DerivedBefore /\ made[th[t].l].op = "WithTag"
    /\ th[t].pc = "idle" /\ th[t].ret = "returned" /\ th[t].writes = 1
    /\ th[t].w = 1 /\ loggers[Std].out = 2
    /\ writers[2] = [mu |-> 0, Writer |-> "file"]
    /\ dest["stderr"].data = bufs[th[t].buf]
    /\ dest["file"].data = <<>>

=============================================================================
